---- MODULE Spec2Model ----
(***************************************************************************)
(* Model of agent0-ui/src-tauri/src/main.rs: the system-tray shell of the  *)
(* Agent-0 service.  One event thread runs handle_system_tray_event on the *)
(* tray events the platform delivers; pause / resume / dashboard           *)
(* selections spawn fire-and-forget tasks on the async runtime; quit calls *)
(* std::process::exit(0).                                                  *)
(***************************************************************************)
EXTENDS Integers, Sequences, FiniteSets, TLC

VARIABLES
    status,     \* "running" | "exited" | "panicked"
    exitCode,   \* <<>> while running, <<code>> once the process has ended
    menu,       \* identifiers of the tray menu items, in order
    window,     \* the "main" window: [exists, visible, focused]
    event,      \* the most recent tray event the platform delivered (NoEvent if none)
    pending,    \* TRUE while handle_system_tray_event has yet to run on event
    tasks,      \* spawned tasks, in spawn order: [kind, pc, resp, result]
    calls,      \* outbound calls in the order they were made: [task, method, url]
    finished,   \* task indexes in the order the tasks completed
    stderr      \* diagnostics written with eprintln!, in order

vars == <<status, exitCode, menu, window, event, pending, tasks, calls, finished, stderr>>

----------------------------------------------------------------------------
(* Bounds *)

MaxTasks == 2

----------------------------------------------------------------------------
(* Inputs *)

HttpStatuses == {200, 301, 404, 500}

TransportErrors == {"connection refused", "operation timed out"}

LaunchErrors == {"no default browser"}

MenuIds == {"pause", "resume", "dashboard", "separator", "quit", "settings"}

ActionableIds == {"pause", "resume", "dashboard", "quit"}

SpawningIds == {"pause", "resume", "dashboard"}

NoEvent == [type |-> "None", id |-> ""]

TrayEvents ==
    {[type |-> "LeftClick", id |-> ""], [type |-> "RightClick", id |-> ""]}
    \cup {[type |-> "MenuItemClick", id |-> i] : i \in MenuIds}

----------------------------------------------------------------------------
(* Backend Action Client *)

PauseUrl == "http://localhost:8000/admin/pause"

ResumeUrl == "http://localhost:8000/admin/resume"

MonitorUrl == "http://localhost:8000/monitor"

Ok(msg) == [ok |-> TRUE, msg |-> msg]

Err(msg) == [ok |-> FALSE, msg |-> msg]

NoResult == [ok |-> FALSE, msg |-> <<>>]

\* The outcome of send().await or of webbrowser::open
Success(code) == [ok |-> TRUE, status |-> code, err |-> ""]

Failure(e) == [ok |-> FALSE, status |-> 0, err |-> e]

NoResponse == [ok |-> FALSE, status |-> 0, err |-> ""]

HttpOutcomes == {Success(c) : c \in HttpStatuses} \cup {Failure(e) : e \in TransportErrors}

LaunchOutcomes == {Success(0)} \cup {Failure(e) : e \in LaunchErrors}

\* format!("<prefix>{}", e): the prefix followed by the Display of e
Format(prefix, e) == <<prefix>> \o e

Display(err) == <<err>>

Contains(msg, piece) == \E i \in 1..Len(msg) : msg[i] = piece

pause_service_swallow(resp) ==
    IF resp.ok THEN Ok(<<"Service paused">>)
    ELSE Err(<<"Failed to pause service">>)

pause_service_strict(resp) ==
    IF resp.ok /\ resp.status < 400 THEN Ok(<<"Service paused">>)
    ELSE Err(Format("Failed to pause service: ", <<"status">>))

pause_service(resp) ==
    IF resp.ok THEN Ok(<<"Service paused">>)
    ELSE Err(Format("Failed to pause service: ", Display(resp.err)))

resume_service(resp) ==
    IF resp.ok THEN Ok(<<"Service resumed">>)
    ELSE Err(Format("Failed to resume service: ", Display(resp.err)))

open_dashboard(resp) ==
    IF ~resp.ok THEN Err(Format("Failed to open dashboard: ", Display(resp.err)))
    ELSE Ok(<<"Dashboard opened">>)

\* The one outbound call each operation makes
RequestOfSwapped(kind) ==
    CASE kind = "pause"     -> [method |-> "POST", url |-> PauseUrl]
      [] kind = "resume"    -> [method |-> "POST", url |-> PauseUrl]
      [] kind = "dashboard" -> [method |-> "open", url |-> MonitorUrl]

RequestOf(kind) ==
    CASE kind = "pause"     -> [method |-> "POST", url |-> PauseUrl]
      [] kind = "resume"    -> [method |-> "POST", url |-> ResumeUrl]
      [] kind = "dashboard" -> [method |-> "open", url |-> MonitorUrl]

ResultOf(kind, resp) ==
    CASE kind = "pause"     -> pause_service(resp)
      [] kind = "resume"    -> resume_service(resp)
      [] kind = "dashboard" -> open_dashboard(resp)

\* The prefix of the eprintln! in the spawned closure
DiagnosticPrefix(kind) ==
    CASE kind = "pause"     -> "Failed to pause service: "
      [] kind = "resume"    -> "Failed to resume service: "
      [] kind = "dashboard" -> "Failed to open dashboard: "

\* if let Err(e) = op().await { eprintln!("...: {}", e); }
Eprintln(kind, result) ==
    IF result.ok THEN stderr
    ELSE Append(stderr, Format(DiagnosticPrefix(kind), result.msg))

----------------------------------------------------------------------------
(* Tray Controller *)

create_system_tray_reordered ==
    <<"pause", "resume", "dashboard", "separator", "quit">>

create_system_tray ==
    <<"pause", "resume", "separator", "dashboard", "separator", "quit">>

PanicExitCode == 101

ProcessRunning == status = "running"

Init ==
    /\ status = "running"
    /\ exitCode = <<>>
    /\ menu = create_system_tray
    /\ window \in {[exists |-> FALSE, visible |-> FALSE, focused |-> FALSE],
                   [exists |-> TRUE, visible |-> FALSE, focused |-> FALSE]}
    /\ event = NoEvent
    /\ pending = FALSE
    /\ tasks = <<>>
    /\ calls = <<>>
    /\ finished = <<>>
    /\ stderr = <<>>

\* The platform delivers the next tray event to the event loop
TrayEvent ==
    /\ ProcessRunning
    /\ ~pending
    /\ \E e \in TrayEvents :
        /\ (e.type = "MenuItemClick" /\ e.id \in SpawningIds) => Len(tasks) < MaxTasks
        /\ event' = e
    /\ pending' = TRUE
    /\ UNCHANGED <<status, exitCode, menu, window, tasks, calls, finished, stderr>>

\* tauri::async_runtime::spawn(async { ... }): schedules the task and returns
SpawnInline(kind) ==
    /\ tasks' = Append(tasks, [kind |-> kind, pc |-> "awaiting",
                               resp |-> NoResponse, result |-> NoResult])
    /\ calls' = Append(calls, [task |-> Len(tasks) + 1,
                               method |-> RequestOf(kind).method,
                               url |-> RequestOf(kind).url])

Spawn(kind) ==
    /\ tasks' = Append(tasks, [kind |-> kind, pc |-> "spawned",
                               resp |-> NoResponse, result |-> NoResult])
    /\ calls' = calls

\* window.show().unwrap(); window.set_focus().unwrap();
HandleLeftClick ==
    /\ ProcessRunning
    /\ pending
    /\ event.type = "LeftClick"
    /\ pending' = FALSE
    /\ IF window.exists
       THEN \E showOk \in BOOLEAN, focusOk \in BOOLEAN :
              /\ window' = [window EXCEPT !.visible = @ \/ showOk,
                                          !.focused = @ \/ (showOk /\ focusOk)]
              /\ IF showOk /\ focusOk
                 THEN UNCHANGED <<status, exitCode>>
                 ELSE status' = "panicked" /\ exitCode' = <<PanicExitCode>>
       ELSE UNCHANGED <<status, exitCode, window>>
    /\ UNCHANGED <<menu, event, tasks, calls, finished, stderr>>

QuitDrain ==
    IF \E i \in 1..Len(tasks) : tasks[i].pc # "done"
    THEN UNCHANGED <<status, exitCode>>
    ELSE status' = "exited" /\ exitCode' = <<0>>

\* std::process::exit(0)
Quit ==
    /\ status' = "exited"
    /\ exitCode' = <<0>>

MenuItemClickFallthrough(id) ==
    /\ CASE id \in SpawningIds -> Spawn(id) /\ UNCHANGED <<status, exitCode>>
         [] id = "quit"        -> Quit /\ UNCHANGED <<tasks, calls>>
         [] OTHER              -> Spawn("dashboard") /\ UNCHANGED <<status, exitCode>>

MenuItemClick(id) ==
    /\ CASE id \in SpawningIds -> Spawn(id) /\ UNCHANGED <<status, exitCode>>
         [] id = "quit"        -> Quit /\ UNCHANGED <<tasks, calls>>
         [] OTHER              -> UNCHANGED <<status, exitCode, tasks, calls>>

HandleMenuItemClick ==
    /\ ProcessRunning
    /\ pending
    /\ event.type = "MenuItemClick"
    /\ pending' = FALSE
    /\ MenuItemClick(event.id)
    /\ UNCHANGED <<menu, window, event, finished, stderr>>

\* _ => {}
HandleOtherEvent ==
    /\ ProcessRunning
    /\ pending
    /\ event.type \notin {"LeftClick", "MenuItemClick"}
    /\ pending' = FALSE
    /\ UNCHANGED <<status, exitCode, menu, window, event, tasks, calls, finished, stderr>>

handle_system_tray_event ==
    \/ HandleLeftClick
    \/ HandleMenuItemClick
    \/ HandleOtherEvent

----------------------------------------------------------------------------
(* Spawned tasks *)

\* client.post(url).send(): the request leaves, the task suspends on the response
TaskSend(i) ==
    /\ ProcessRunning
    /\ i \in 1..Len(tasks)
    /\ tasks[i].kind \in {"pause", "resume"}
    /\ tasks[i].pc = "spawned"
    /\ calls' = Append(calls, [task |-> i, method |-> RequestOf(tasks[i].kind).method,
                               url |-> RequestOf(tasks[i].kind).url])
    /\ tasks' = [tasks EXCEPT ![i].pc = "awaiting"]
    /\ UNCHANGED <<status, exitCode, menu, window, event, pending, finished, stderr>>

\* .await resolves: Ok(_) or Err(e); the closure prints the error, if any
TaskComplete(i) ==
    /\ ProcessRunning
    /\ i \in 1..Len(tasks)
    /\ tasks[i].kind \in {"pause", "resume"}
    /\ tasks[i].pc = "awaiting"
    /\ \E resp \in HttpOutcomes :
        /\ tasks' = [tasks EXCEPT ![i].pc = "done", ![i].resp = resp,
                                  ![i].result = ResultOf(tasks[i].kind, resp)]
        /\ stderr' = Eprintln(tasks[i].kind, ResultOf(tasks[i].kind, resp))
    /\ finished' = Append(finished, i)
    /\ UNCHANGED <<status, exitCode, menu, window, event, pending, calls>>

\* webbrowser::open(url): synchronous inside the task
TaskOpen(i) ==
    /\ ProcessRunning
    /\ i \in 1..Len(tasks)
    /\ tasks[i].kind = "dashboard"
    /\ tasks[i].pc = "spawned"
    /\ calls' = Append(calls, [task |-> i, method |-> RequestOf("dashboard").method,
                               url |-> RequestOf("dashboard").url])
    /\ \E resp \in LaunchOutcomes :
        /\ tasks' = [tasks EXCEPT ![i].pc = "done", ![i].resp = resp,
                                  ![i].result = ResultOf("dashboard", resp)]
        /\ stderr' = Eprintln("dashboard", ResultOf("dashboard", resp))
    /\ finished' = Append(finished, i)
    /\ UNCHANGED <<status, exitCode, menu, window, event, pending>>

Next ==
    \/ TrayEvent
    \/ handle_system_tray_event
    \/ \E i \in 1..MaxTasks : TaskSend(i)
    \/ \E i \in 1..MaxTasks : TaskComplete(i)
    \/ \E i \in 1..MaxTasks : TaskOpen(i)

Spec == Init /\ [][Next]_vars

\* The runtime polls every spawned task; nothing bounds the wait for a response
FairSpec ==
    /\ Spec
    /\ \A i \in 1..MaxTasks : WF_vars(TaskSend(i)) /\ WF_vars(TaskOpen(i))

----------------------------------------------------------------------------
(* Properties *)

Handled == pending /\ ~pending'

Selected(id) == Handled /\ event.type = "MenuItemClick" /\ event.id = id

NewTask(kind) == [kind |-> kind, pc |-> "spawned", resp |-> NoResponse, result |-> NoResult]

CallsOf(i) == {j \in 1..Len(calls) : calls[j].task = i}

InFlight(i) == i \in 1..Len(tasks) /\ tasks[i].pc # "done"

Failed(i) == i \in 1..Len(tasks) /\ tasks[i].pc = "done" /\ ~tasks[i].result.ok

ExpectedCall(kind) ==
    CASE kind = "pause"     -> [method |-> "POST", url |-> "http://localhost:8000/admin/pause"]
      [] kind = "resume"    -> [method |-> "POST", url |-> "http://localhost:8000/admin/resume"]
      [] kind = "dashboard" -> [method |-> "open", url |-> "http://localhost:8000/monitor"]

ConfirmationOf(kind) ==
    CASE kind = "pause"  -> <<"Service paused">>
      [] kind = "resume" -> <<"Service resumed">>

\* C1: a pause / resume / dashboard selection schedules exactly one task of
\* that kind and makes no call itself; each task makes exactly one call, the
\* one of its kind (POST /admin/pause, POST /admin/resume, browser-open of
\* /monitor, never a POST for dashboard), and no call exists without a task;
\* a quit selection exits with code 0 and schedules nothing.
C1_OneCallInv ==
    /\ \A j \in 1..Len(calls) : calls[j].task \in 1..Len(tasks)
    /\ \A i \in 1..Len(tasks) :
        /\ tasks[i].pc = "spawned" => CallsOf(i) = {}
        /\ tasks[i].pc # "spawned" => Cardinality(CallsOf(i)) = 1
        /\ \A j \in CallsOf(i) :
            /\ calls[j].method = ExpectedCall(tasks[i].kind).method
            /\ calls[j].url = ExpectedCall(tasks[i].kind).url

C1_DispatchStep ==
    /\ \A id \in SpawningIds :
        Selected(id) => /\ tasks' = Append(tasks, NewTask(id))
                        /\ calls' = calls
                        /\ status' = "running"
    /\ Selected("quit") => /\ status' = "exited"
                           /\ exitCode' = <<0>>
                           /\ tasks' = tasks
                           /\ calls' = calls

C1_ExactlyOneCall == []C1_OneCallInv /\ [][C1_DispatchStep]_vars

C1_Witness ==
    /\ status = "exited"
    /\ Len(tasks) = 2
    /\ tasks[1].kind = "resume" /\ tasks[1].pc = "done"
    /\ tasks[2].kind = "dashboard" /\ tasks[2].pc = "done"
    /\ Len(calls) = 2

\* C2: handling a MenuItemClick whose identifier is separator or anything
\* other than pause, resume, dashboard, quit changes nothing but the
\* consumption of the event: no call, no task, no diagnostic, no exit.
C2_UnknownIdNoOp ==
    [][(Handled /\ event.type = "MenuItemClick" /\ event.id \notin ActionableIds)
        => UNCHANGED <<status, exitCode, menu, window, event, tasks, calls, finished, stderr>>]_vars

C2_Witness ==
    /\ ~pending
    /\ event = [type |-> "MenuItemClick", id |-> "separator"]
    /\ status = "running"
    /\ Len(tasks) = 1 /\ tasks[1].pc = "awaiting"

\* C3: the process has ended only if a quit selection was handled (exit
\* code 0); nothing else, a left-click included, ends it.
C3_OnlyQuitTerminates ==
    status # "running" =>
        /\ status = "exited"
        /\ exitCode = <<0>>
        /\ ~pending
        /\ event = [type |-> "MenuItemClick", id |-> "quit"]

\* C4: a quit selection handled while tasks are in flight ends the process
\* with exit code 0 whatever the tasks are doing, and once the process has
\* exited no task advances: no call, no result, no diagnostic.
C4_QuitStep ==
    Selected("quit") => status' = "exited" /\ exitCode' = <<0>>

C4_AbandonedStep ==
    status = "exited" => UNCHANGED <<tasks, calls, finished, stderr>>

C4_QuitAbandonsTasks == [][C4_QuitStep /\ C4_AbandonedStep]_vars

C4_Witness ==
    /\ status = "exited" /\ exitCode = <<0>>
    /\ Len(tasks) = 2
    /\ tasks[1].kind = "pause" /\ tasks[1].pc = "spawned"
    /\ tasks[2].kind = "dashboard" /\ tasks[2].pc = "spawned"
    /\ stderr = <<>> /\ finished = <<>>

\* C5: a pause or resume task whose POST ended in a transport error has a
\* failure result whose message contains the transport error, one diagnostic
\* embedding that message is on the error stream (one per failed task), the
\* task made exactly one request, and the step that fails leaves the process
\* running, able to take and handle further tray events.
C5_FailureInv ==
    /\ \A i \in 1..Len(tasks) :
        (tasks[i].kind \in {"pause", "resume"} /\ tasks[i].pc = "done" /\ ~tasks[i].resp.ok) =>
            /\ ~tasks[i].result.ok
            /\ tasks[i].resp.err \in TransportErrors
            /\ Contains(tasks[i].result.msg, tasks[i].resp.err)
            /\ \E k \in 1..Len(stderr) :
                /\ Contains(stderr[k], tasks[i].resp.err)
                /\ Contains(stderr[k], DiagnosticPrefix(tasks[i].kind))
            /\ Cardinality(CallsOf(i)) = 1
    /\ Len(stderr) = Cardinality({i \in 1..Len(tasks) : Failed(i)})
    /\ (status = "running" /\ pending /\ \E i \in 1..Len(tasks) : Failed(i))
         => ENABLED handle_system_tray_event
    /\ (status = "running" /\ ~pending /\ \E i \in 1..Len(tasks) : Failed(i))
         => ENABLED TrayEvent

C5_FailureStep ==
    \A i \in 1..Len(tasks) :
        (tasks[i].pc # "done" /\ Len(tasks') >= i /\ tasks'[i].pc = "done" /\ ~tasks'[i].result.ok)
            => status' = "running" /\ status = "running"

C5_TransportFailure == []C5_FailureInv /\ [][C5_FailureStep]_vars

C5_Witness ==
    /\ status = "running"
    /\ Len(tasks) = 2
    /\ tasks[1].kind = "pause" /\ tasks[1].pc = "done"
    /\ tasks[1].resp = Failure("connection refused")
    /\ tasks[2].kind = "resume" /\ tasks[2].pc = "spawned"
    /\ Len(stderr) = 1
    /\ ~pending /\ event.type = "LeftClick"

\* C6: a pause or resume task whose POST got a response, whatever its HTTP
\* status, has the fixed confirmation of its kind as a success result; the
\* result is a success exactly when no transport error occurred, and only
\* failed tasks have written a diagnostic.
C6_AnyStatusSucceeds ==
    /\ \A i \in 1..Len(tasks) :
        (tasks[i].kind \in {"pause", "resume"} /\ tasks[i].pc = "done") =>
            /\ tasks[i].result.ok <=> tasks[i].resp.ok
            /\ tasks[i].resp.ok =>
                /\ tasks[i].resp.status \in HttpStatuses
                /\ tasks[i].result = [ok |-> TRUE, msg |-> ConfirmationOf(tasks[i].kind)]
    /\ Len(stderr) = Cardinality({i \in 1..Len(tasks) : tasks[i].pc = "done" /\ ~tasks[i].resp.ok})

C6_Witness ==
    /\ Len(tasks) = 2
    /\ tasks[1].kind = "pause" /\ tasks[1].pc = "done" /\ tasks[1].resp.status = 500
    /\ tasks[1].result.ok
    /\ tasks[2].kind = "resume" /\ tasks[2].pc = "done" /\ tasks[2].resp.status = 404
    /\ tasks[2].result.ok
    /\ stderr = <<>>

\* C7: two pause / resume selections handled one after the other give two
\* independent tasks (no deduplication), and unless quit is handled both
\* requests are eventually sent.
C7_TwoDispatched ==
    /\ Len(tasks) >= 2
    /\ tasks[1].kind \in {"pause", "resume"}
    /\ tasks[2].kind \in {"pause", "resume"}

C7_BothSent ==
    /\ Len(tasks) >= 2
    /\ CallsOf(1) # {}
    /\ CallsOf(2) # {}

C7_NoDedupStep ==
    \A id \in {"pause", "resume"} : Selected(id) => Len(tasks') = Len(tasks) + 1

C7_BothEventuallySent ==
    /\ [][C7_NoDedupStep]_vars
    /\ C7_TwoDispatched ~> (C7_BothSent \/ status = "exited")

\* C8: handling a pause, resume or dashboard selection only schedules the
\* task: the new task has not run, no call is made, no earlier task is
\* touched or waited for; and whenever the process runs and an event is
\* pending the handler can take it, whatever the tasks in flight are doing.
C8_HandlerEnabled ==
    (status = "running" /\ pending) => ENABLED handle_system_tray_event

C8_ScheduleOnlyStep ==
    \A id \in SpawningIds :
        Selected(id) =>
            /\ Len(tasks') = Len(tasks) + 1
            /\ tasks'[Len(tasks')].pc = "spawned"
            /\ \A i \in 1..Len(tasks) : tasks'[i] = tasks[i]
            /\ UNCHANGED <<calls, finished, stderr, status>>

C8_HandlerNeverBlocks == []C8_HandlerEnabled /\ [][C8_ScheduleOnlyStep]_vars

C8_Witness ==
    /\ status = "exited"
    /\ ~pending /\ event = [type |-> "MenuItemClick", id |-> "quit"]
    /\ Len(tasks) = 2
    /\ tasks[1].pc = "awaiting"
    /\ tasks[2].pc = "spawned"

\* C9: handling a left-click leaves an existing main window visible and
\* focused with the process running; without a main window it changes
\* nothing: no call, no task, no diagnostic, no exit.
C9_LeftClickStep ==
    (Handled /\ event.type = "LeftClick") =>
        IF window.exists
        THEN window'.visible /\ window'.focused /\ status' = "running"
        ELSE UNCHANGED <<status, exitCode, window, tasks, calls, finished, stderr>>

C9_LeftClickShowsWindow == [][C9_LeftClickStep]_vars

\* C10 (as stated): the menu is pause, resume, separator, dashboard,
\* separator, quit and no two of its items share an identifier.
C10_UniqueIds ==
    /\ menu = <<"pause", "resume", "separator", "dashboard", "separator", "quit">>
    /\ \A i \in 1..Len(menu), j \in 1..Len(menu) : menu[i] = menu[j] => i = j

\* C10 (amended): the menu is always pause, resume, separator, dashboard,
\* separator, quit; pause, resume, dashboard and quit each occur once, and
\* separator is the one identifier two items share.
C10_FixedMenu ==
    /\ menu = <<"pause", "resume", "separator", "dashboard", "separator", "quit">>
    /\ \A id \in ActionableIds : Cardinality({i \in 1..Len(menu) : menu[i] = id}) = 1
    /\ Cardinality({i \in 1..Len(menu) : menu[i] = "separator"}) = 2

C10_Witness ==
    /\ menu[3] = "separator" /\ menu[5] = "separator"
    /\ status = "exited"
    /\ Len(tasks) = 2
    /\ tasks[1].pc = "done" /\ tasks[2].pc = "done"

====
